---------------------------- MODULE Spec2Model ----------------------------
(***************************************************************************)
(* A state-machine model of the Voyager agent control loop:                *)
(*   - SkillManager (src/voyager/agents/skill.py): manifest, similarity    *)
(*     index and checkpoint files;                                         *)
(*   - Voyager (src/voyager/voyager.py): reset / step / rollout / learn.   *)
(* Every handler is one action.  External collaborators (LLM backends, the *)
(* environment gateway, the vector store, the file system) answer          *)
(* nondeterministically and may raise.                                     *)
(***************************************************************************)
EXTENDS Integers, Sequences, FiniteSets, TLC

VARIABLES
    skill_manager,   \* the SkillManager object: state, skills, vectordb, retrieval_top_k
    ckpt,            \* the skill checkpoint on disk: code, description, skills_json, vectordb
    sm_ret,          \* outcome of the most recent SkillManager call
    sm_ops,          \* number of SkillManager calls made by the skill-store driver
    voyager,         \* the Voyager object's fields (with its recorder, chest memory, planner lists)
    driver,          \* who is running: the caller ("idle") or a position inside learn()
    ret,             \* what the most recent Voyager operation returned or raised
    ops,             \* the calls to collaborators made by the most recent Voyager operation
    calls,           \* number of public Voyager methods the caller has invoked
    reset_completed  \* history: some reset() has returned

skillVars == <<skill_manager, ckpt, sm_ret, sm_ops>>

orchVars == <<voyager, driver, ret, ops, calls, reset_completed>>

vars == <<skill_manager, ckpt, sm_ret, sm_ops, voyager, driver, ret, ops, calls,
          reset_completed>>

---------------------------------------------------------------------------
(* Bounds of the model *)

\* SkillManager calls made in one behaviour of the skill-store specifications
MaxSkillOps == 3
\* largest retrieval_top_k a manager is constructed with
MaxTopK == 2

---------------------------------------------------------------------------
(* Values *)

\* A program name is a base identifier followed by version suffixes:
\* [base |-> "foo", vs |-> <<2>>] is the string "fooV2".
Name(base, vs) == [base |-> base, vs |-> vs]

\* f"{program_name}V{i}"
Alias(program_name, i) == [program_name EXCEPT !.vs = Append(@, i)]

ProgramNames == {Name("foo", <<>>), Name("foo", <<2>>), Name("bar", <<>>)}
ProgramCodes == {"code1", "code2"}
\* what the description model answers for a program: one text per code
LlmText(program_code) == IF program_code = "code1" THEN "text1" ELSE "text2"

\* A task is its text split in two: the leading phrase and the rest.
DepositPrefix == "Deposit useless items into the chest at"
DepositTask == <<DepositPrefix, "(1, 2, 3)">>
MineTask == <<"Mine 1 wood log", "">>
CraftTask == <<"Craft 1 crafting table", "">>

\* a faulty variant: no task is recognised by its prefix
startswith_nothing(task, prefix) == FALSE

\* info["task"].startswith(prefix)
startswith(task, prefix) == Len(task) >= 1 /\ task[1] = prefix

\* dict assignment d[k] = v
Put(d, k, v) == [x \in DOMAIN d \cup {k} |-> IF x = k THEN v ELSE d[x]]

EmptyDict == [x \in {} |-> {}]

Min(a, b) == IF a <= b THEN a ELSE b

---------------------------------------------------------------------------
(* SkillManager *)

NoManager == [state |-> "absent", skills |-> EmptyDict, vectordb |-> {},
              retrieval_top_k |-> 0]

EmptyCkpt == [code |-> EmptyDict, description |-> EmptyDict,
              skills_json |-> [exists |-> FALSE, data |-> EmptyDict],
              vectordb |-> {}]

NoRet == [op |-> "none", outcome |-> "none", error |-> "", info |-> <<>>,
          value |-> <<>>, llm_calls |-> 0]

\* The result of SkillManager.__init__ on checkpoint ck:
\* the constructed object, or state "failed" when the constructor raised.
SkillManagerInit(ck, resume, top_k) ==
    IF resume /\ ~ck.skills_json.exists
    THEN [sm |-> [NoManager EXCEPT !.state = "failed"], error |-> "FileNotFoundError"]
    ELSE LET skills == IF resume THEN ck.skills_json.data ELSE EmptyDict
             vectordb == ck.vectordb
         IN  IF Cardinality(vectordb) # Cardinality(DOMAIN skills)
             THEN [sm |-> [NoManager EXCEPT !.state = "failed"], error |-> "AssertionError"]
             ELSE [sm |-> [state |-> "ready", skills |-> skills, vectordb |-> vectordb,
                           retrieval_top_k |-> top_k],
                   error |-> ""]

\* generate_skill_description: the description embeds the program name and
\* the LLM's text.
generate_skill_description(program_name, text) == [name |-> program_name, text |-> text]

\* i = 2; while f"{program_name}V{i}.js" in os.listdir(code dir): i += 1
RECURSIVE FirstUnusedSuffix(_, _, _)
FirstUnusedSuffix(program_name, files, i) ==
    IF Alias(program_name, i) \in files
    THEN FirstUnusedSuffix(program_name, files, i + 1)
    ELSE i

\* a faulty variant: the repeated name is written under the name itself
DumpedProgramNameInPlace(program_name, skills, files) == program_name

\* dumped_program_name of add_new_skill
DumpedProgramName(program_name, skills, files) ==
    IF program_name \in DOMAIN skills
    THEN Alias(program_name, FirstUnusedSuffix(program_name, files, 2))
    ELSE program_name

\* the index after lines 96-109: delete the old id if the name exists, then insert
IndexAfterInsert(vectordb, program_name, existing) ==
    (IF existing THEN vectordb \ {program_name} ELSE vectordb) \cup {program_name}

AddResult(sm, ck, outcome, error, llm) ==
    [sm |-> sm, ckpt |-> ck, outcome |-> outcome, error |-> error, llm_calls |-> llm]

\* SkillManager.add_new_skill(info).  text is the LLM's answer; fault names
\* the external call that raises in this execution ("none": no call raises).
add_new_skill(sm, ck, info, text, fault) ==
    IF startswith(info.task, DepositPrefix)
    THEN AddResult(sm, ck, "returned", "", 0)
    ELSE
    LET program_name == info.program_name
        program_code == info.program_code
        existing == program_name \in DOMAIN sm.skills
    IN
    IF fault = "llm" THEN AddResult(sm, ck, "raised", "llm", 1)
    ELSE
    LET skill_description == generate_skill_description(program_name, text)
    IN
    IF existing /\ fault = "delete" THEN AddResult(sm, ck, "raised", "delete", 1)
    ELSE
    LET dumped == DumpedProgramName(program_name, sm.skills, DOMAIN ck.code)
        sm1 == [sm EXCEPT !.vectordb = IF existing THEN @ \ {program_name} ELSE @]
    IN
    IF fault = "add_texts" THEN AddResult(sm1, ck, "raised", "add_texts", 1)
    ELSE
    LET sm2 == [sm EXCEPT
                  !.vectordb = IndexAfterInsert(@, program_name, existing),
                  !.skills = Put(@, program_name,
                                 [code |-> program_code,
                                  description |-> skill_description])]
    IN
    IF Cardinality(sm2.vectordb) # Cardinality(DOMAIN sm2.skills)
    THEN AddResult(sm2, ck, "raised", "AssertionError", 1)
    ELSE
    IF fault = "dump_code" THEN AddResult(sm2, ck, "raised", "dump_code", 1)
    ELSE
    LET ck1 == [ck EXCEPT !.code = Put(@, dumped, program_code)]
    IN
    IF fault = "dump_description" THEN AddResult(sm2, ck1, "raised", "dump_description", 1)
    ELSE
    LET ck2 == [ck1 EXCEPT !.description = Put(@, dumped, skill_description)]
    IN
    IF fault = "dump_json" THEN AddResult(sm2, ck2, "raised", "dump_json", 1)
    ELSE
    LET ck3 == [ck2 EXCEPT !.skills_json = [exists |-> TRUE, data |-> sm2.skills]]
    IN
    IF fault = "persist" THEN AddResult(sm2, ck3, "raised", "persist", 1)
    ELSE AddResult(sm2, [ck3 EXCEPT !.vectordb = sm2.vectordb], "returned", "", 1)

AddFaults == {"none", "llm", "delete", "add_texts", "dump_code",
              "dump_description", "dump_json", "persist"}

\* a faulty variant: the configured top-k is ignored
RetrieveKUncapped(sm) == Cardinality(sm.vectordb)

\* k of retrieve_skills
RetrieveK(sm) == Min(Cardinality(sm.vectordb), sm.retrieval_top_k)

\* The answers similarity_search_with_score(query, k) can give: k distinct
\* stored ids in some ranking.
Rankings(vectordb, k) ==
    {r \in [1..k -> vectordb] : \A i, j \in 1..k : i # j => r[i] # r[j]}

\* SkillManager.retrieve_skills(query), given the ranking the index answers with
retrieve_skills(sm, docs) ==
    IF RetrieveK(sm) = 0
    THEN [outcome |-> "returned", error |-> "", value |-> <<>>]
    ELSE IF \E i \in 1..Len(docs) : docs[i] \notin DOMAIN sm.skills
         THEN [outcome |-> "raised", error |-> "KeyError", value |-> <<>>]
         ELSE [outcome |-> "returned", error |-> "",
               value |-> [i \in 1..Len(docs) |-> sm.skills[docs[i]].code]]


---------------------------------------------------------------------------
(* Actions of the skill store, driven directly *)

\* the deposit task is reported with one program: add_new_skill reads
\* nothing but the task of such a report (lines 87-89)
SkillInfos ==
    {[task |-> MineTask, success |-> TRUE, program_name |-> n, program_code |-> c] :
        n \in ProgramNames, c \in ProgramCodes}
    \cup {[task |-> DepositTask, success |-> TRUE,
           program_name |-> Name("bar", <<>>), program_code |-> "code1"]}

\* SkillManager(..., retrieval_top_k=top_k, resume=resume) on the current
\* checkpoint: a process start.  The previous object is gone.
SkillConstruct ==
    /\ sm_ops < MaxSkillOps
    /\ \E resume \in BOOLEAN, top_k \in 0..MaxTopK :
          LET r == SkillManagerInit(ckpt, resume, top_k)
          IN  /\ skill_manager' = r.sm
              /\ sm_ret' = [NoRet EXCEPT !.op = "init",
                               !.outcome = IF r.error = "" THEN "returned" ELSE "raised",
                               !.error = r.error]
    /\ sm_ops' = sm_ops + 1
    /\ UNCHANGED <<ckpt, orchVars>>

\* skill_manager.add_new_skill(info)
SkillAdd ==
    /\ sm_ops < MaxSkillOps
    /\ skill_manager.state = "ready"
    /\ \E info \in SkillInfos, fault \in AddFaults :
          LET r == add_new_skill(skill_manager, ckpt, info, LlmText(info.program_code), fault)
          IN  /\ skill_manager' = r.sm
              /\ ckpt' = r.ckpt
              /\ sm_ret' = [NoRet EXCEPT !.op = "add", !.outcome = r.outcome,
                               !.error = r.error, !.info = info,
                               !.llm_calls = r.llm_calls]
    /\ sm_ops' = sm_ops + 1
    /\ UNCHANGED orchVars

\* skill_manager.retrieve_skills(query)
SkillRetrieve ==
    /\ sm_ops < MaxSkillOps
    /\ skill_manager.state = "ready"
    /\ \E docs \in Rankings(skill_manager.vectordb, RetrieveK(skill_manager)) :
          LET r == retrieve_skills(skill_manager, docs)
          IN  sm_ret' = [NoRet EXCEPT !.op = "retrieve", !.outcome = r.outcome,
                            !.error = r.error, !.value = r.value]
    /\ sm_ops' = sm_ops + 1
    /\ UNCHANGED <<skill_manager, ckpt, orchVars>>

SkillNext == SkillConstruct \/ SkillAdd \/ SkillRetrieve

---------------------------------------------------------------------------
(* Environment gateway, event batches *)

\* What the gateway may observe: the stamp stands for the world state the
\* snapshot was taken in (inventory, voxels, status, nearbyChests).
Stamps == {1, 2}

Observe(s) == [type |-> "observe", inventory |-> s, voxels |-> s,
               status |-> s, nearbyChests |-> s]

OnError == [type |-> "onError", inventory |-> 0, voxels |-> 0,
            status |-> 0, nearbyChests |-> 0]

\* The event lists env.step / env.reset answer with: the last event is the
\* observation, an error marker may precede it.
GatewayBatches ==
    {<<Observe(s)>> : s \in Stamps} \cup {<<OnError, Observe(1)>>}

\* events[-1]
Last(events) == events[Len(events)]

NoEvents == <<>>
NoTask == <<>>
NoMessages == <<>>

Tasks == {MineTask, DepositTask}
Contexts == {"", "hint"}

\* the (task, context) pair propose_next_task answers with; the planner may
\* propose the same task again
Proposals == {<<MineTask, "hint">>}

---------------------------------------------------------------------------
(* CriticAgent *)

\* An LLM answer to the critic is malformed or carries a verdict.
Malformed == [ok |-> FALSE, success |-> FALSE, critique |-> ""]
Verdict(success, critique) == [ok |-> TRUE, success |-> success, critique |-> critique]

\* render_human_message returns None when some event is an onError
HasError(events) == \E i \in 1..Len(events) : events[i].type = "onError"

CriticResult(outcome, success, critique, llm) ==
    [outcome |-> outcome, success |-> success, critique |-> critique, llm_calls |-> llm]

\* CriticAgent.ai_check_task_success(messages, max_retries); responses are
\* the answers the LLM gives to the successive calls, used is how many of
\* them have been consumed.
RECURSIVE ai_check_task_success(_, _, _, _)
ai_check_task_success(human_is_none, responses, max_retries, used) ==
    IF max_retries = 0 THEN CriticResult("returned", FALSE, "", used)
    ELSE IF human_is_none THEN CriticResult("returned", FALSE, "", used)
    ELSE IF used >= Len(responses) THEN CriticResult("raised", FALSE, "", used + 1)
    ELSE LET r == responses[used + 1]
         IN  IF r.ok THEN CriticResult("returned", r.success, r.critique, used + 1)
             ELSE ai_check_task_success(human_is_none, responses, max_retries - 1, used + 1)

\* a faulty variant: one attempt more than asked for
check_task_success_one_more(events, responses, max_retries) ==
    IF Last(events).type # "observe"
    THEN CriticResult("raised", FALSE, "", 0)
    ELSE ai_check_task_success(HasError(events), responses, max_retries + 1, 0)

\* CriticAgent.check_task_success in automatic mode
check_task_success(events, responses, max_retries) ==
    IF Last(events).type # "observe"
    THEN CriticResult("raised", FALSE, "", 0)
    ELSE ai_check_task_success(HasError(events), responses, max_retries, 0)

\* lines 159-166: the mode decides who gives the verdict, after the human
\* message has been rendered; human is what the operator types
AsksHuman(mode, events) == mode = "manual" /\ Last(events).type = "observe"

check_task_success_in(mode, events, responses, human, max_retries) ==
    IF AsksHuman(mode, events)
    THEN CriticResult("returned", human.success, human.critique, 0)
    ELSE check_task_success(events, responses, max_retries)

\* max_retries=5 in Voyager.step's call of the critic
CriticMaxRetries == 5

\* The critic LLM's behaviours the orchestrator is explored with: a verdict
\* at the first answer, five malformed answers, or a call that raises.
CriticAnswers ==
    {<<Verdict(TRUE, "")>>, <<Verdict(FALSE, "critique")>>,
     <<Malformed, Malformed, Malformed, Malformed, Malformed>>, <<>>}

---------------------------------------------------------------------------
(* Voyager: reset and step *)

\* difficulty chosen in reset()
Difficulty(completed) == IF completed > 15 THEN "easy" ELSE "peaceful"

\* [system_message, human_message] as rendered by the action agent
Messages(n_skills, task, context, code, critique) ==
    <<[role |-> "system", skills |-> n_skills, task |-> NoTask, context |-> "",
       code |-> "", critique |-> ""],
      [role |-> "human", skills |-> 0, task |-> task, context |-> context,
       code |-> code, critique |-> critique]>>

\* What process_ai_message makes of the LLM's answer: a str (free text) or a
\* dict with the program.
AiText == [kind |-> "text", program_name |-> Name("", <<>>), program_code |-> ""]
AiCode == [kind |-> "code", program_name |-> Name("foo", <<>>), program_code |-> "code1"]
AiMessages == {AiText, AiCode}

OpResult(self, outcome, error, made) ==
    [self |-> self, outcome |-> outcome, error |-> error, ops |-> made]

\* a faulty variant: the conversation history survives the reset
reset_keeping_history(self, sm, task, context, reset_env, fault, events, docs) ==
    LET s1 == [self EXCEPT !.action_agent_rollout_num_iter = 0,
                           !.task = task,
                           !.context = context]
        o1 == IF reset_env THEN <<"env.reset:soft">> ELSE <<>>
    IN  IF reset_env /\ fault = "env.reset"
        THEN OpResult(s1, "raised", "GatewayError", o1)
        ELSE
        LET o2 == Append(o1, "env.step")
        IN  IF fault = "env.step"
            THEN OpResult(s1, "raised", "GatewayError", o2)
            ELSE
            LET skills == retrieve_skills(sm, docs)
                o3 == Append(o2, "retrieve_skills")
            IN  IF skills.outcome = "raised"
                THEN OpResult(s1, "raised", skills.error, o3)
                ELSE OpResult([s1 EXCEPT
                                 !.messages = Messages(Len(skills.value), task, context, "", "")],
                              "returned", "", o3)

\* Voyager.reset(task, context, reset_env).  fault names the gateway call
\* that raises in this execution; events is what env.step answers, docs the
\* ranking the skill index answers with.
reset(self, sm, task, context, reset_env, fault, events, docs) ==
    LET s1 == [self EXCEPT !.action_agent_rollout_num_iter = 0,
                           !.task = task,
                           !.context = context]
        o1 == IF reset_env THEN <<"env.reset:soft">> ELSE <<>>
    IN  IF reset_env /\ fault = "env.reset"
        THEN OpResult(s1, "raised", "GatewayError", o1)
        ELSE
        LET o2 == Append(o1, "env.step")
        IN  IF fault = "env.step"
            THEN OpResult(s1, "raised", "GatewayError", o2)
            ELSE
            LET skills == retrieve_skills(sm, docs)
                o3 == Append(o2, "retrieve_skills")
            IN  IF skills.outcome = "raised"
                THEN OpResult(s1, "raised", skills.error, o3)
                ELSE OpResult([s1 EXCEPT
                                 !.messages = Messages(Len(skills.value), task, context, "", ""),
                                 !.conversations = <<>>],
                              "returned", "", o3)

ResetFaults == {"none", "env.reset", "env.step"}

\* recorder.record(events, task): one batch appended, the counter moves by one
record(self, events, task) ==
    [self EXCEPT !.recorder = [iteration |-> @.iteration + 1,
                               events |-> events, task |-> task]]

\* action_agent.update_chest_memory(chests)
update_chest_memory(self, chests) ==
    [self EXCEPT !.chest_memory = @ \cup {chests}]

\* a faulty variant: the ceiling is compared strictly
StepDoneStrict(num_iter, max_retries, success) == num_iter > max_retries \/ success

\* a faulty variant: two attempts beyond the ceiling are allowed
StepDoneGenerous(num_iter, max_retries, success) ==
    num_iter >= max_retries + 2 \/ success

\* done of step(), lines 317-320
StepDone(num_iter, max_retries, success) == num_iter >= max_retries \/ success

\* a faulty variant: the program is reported whatever the verdict
StepInfoWithProgram(task, success, conversations, parsed) ==
    [task |-> task, success |-> success, conversations |-> conversations,
     program_code |-> parsed.program_code, program_name |-> parsed.program_name]

\* info of step(), lines 321-331
StepInfo(task, success, conversations, parsed) ==
    IF success
    THEN [task |-> task, success |-> success, conversations |-> conversations,
          program_code |-> parsed.program_code, program_name |-> parsed.program_name]
    ELSE [task |-> task, success |-> success, conversations |-> conversations]

\* lines 315-336: the common tail of step()
StepReturn(self, success, parsed, made) ==
    LET s == [self EXCEPT !.action_agent_rollout_num_iter = @ + 1]
    IN  [self |-> s, outcome |-> "returned", error |-> "", ops |-> made,
         parsed |-> parsed.kind, reward |-> 0,
         done |-> StepDone(s.action_agent_rollout_num_iter,
                           s.action_agent_task_max_retries, success),
         success |-> success,
         info |-> StepInfo(s.task, success, s.conversations, parsed)]

StepRaise(self, error, made) ==
    [self |-> self, outcome |-> "raised", error |-> error, ops |-> made,
     parsed |-> "", reward |-> 0, done |-> FALSE, success |-> FALSE, info |-> <<>>]

\* a faulty variant: the unparsed reply is executed and the chest memory
\* updated all the same
StepParseFailureExecuting(self, parsed, made) ==
    StepReturn(update_chest_memory(record(self, <<>>, self.task), 0), FALSE, parsed,
               made \o <<"env.step", "recorder.record">>)

\* a faulty variant: an unparsed reply leaves no trace in the recorder
StepParseFailureUnrecorded(self, parsed, made) ==
    StepReturn(self, FALSE, parsed, made)

\* the else branch of step(), lines 311-314: a parse failure
StepParseFailure(self, parsed, made) ==
    StepReturn(record(self, <<>>, self.task), FALSE, parsed,
               Append(made, "recorder.record"))

\* (messages[0].content, messages[1].content, ai_message.content)
Turn(messages, ai) == [human |-> messages[2].task, ai |-> ai.kind]

\* a faulty variant: the whole last event is taken from the reversal's output
PatchPlacedWhole(events, new_events) ==
    [events EXCEPT ![Len(events)] = Last(new_events)]

\* lines 290-295: the reversal's output patches inventory and voxels of the
\* last event
PatchPlaced(events, new_events) ==
    [events EXCEPT ![Len(events)] =
        [@ EXCEPT !.inventory = Last(new_events).inventory,
                  !.voxels = Last(new_events).voxels]]

\* the calls check_task_success makes
CriticOps(c) ==
    (<<"critic">> \o [i \in 1..c.llm_calls |-> "llm:critic"])
    \o (IF c.outcome # "returned" THEN <<>>
        ELSE IF c.success THEN <<"critic:success">> ELSE <<"critic:failure">>)

\* a faulty variant: the critic judges before the events are recorded
StepParseSuccessJudgingFirst(self, sm, fault, parsed, events, answers, new_events, docs, made) ==
    LET s2 == record(self, events, self.task)
        s3 == update_chest_memory(s2, Last(events).nearbyChests)
        c == check_task_success(events, answers, CriticMaxRetries)
        o3 == (made \o CriticOps(c)) \o <<"recorder.record", "update_chest_memory">>
    IN  IF c.outcome = "raised" THEN StepRaise(s3, "CriticError", o3)
        ELSE
        LET revert == s3.reset_placed_if_failed /\ ~c.success
            o4 == IF revert THEN Append(o3, "env.step:revert") ELSE o3
        IN  IF revert /\ fault = "env.step:revert"
            THEN StepRaise(s3, "GatewayError", o4)
            ELSE
            LET events2 == IF revert THEN PatchPlaced(events, new_events) ELSE events
                new_skills == retrieve_skills(sm, docs)
                o5 == Append(o4, "retrieve_skills")
            IN  IF new_skills.outcome = "raised"
                THEN StepRaise(s3, new_skills.error, o5)
                ELSE StepReturn(
                        [s3 EXCEPT
                           !.last_events = events2,
                           !.messages = Messages(Len(new_skills.value), s3.task,
                                                 s3.context, parsed.program_code,
                                                 c.critique)],
                        c.success, parsed, o5)

\* lines 256-310 after the gateway has answered with events
StepParseSuccess(self, sm, fault, parsed, events, answers, new_events, docs, made) ==
    LET s2 == record(self, events, self.task)
        s3 == update_chest_memory(s2, Last(events).nearbyChests)
        c == check_task_success(events, answers, CriticMaxRetries)
        o3 == (made \o <<"recorder.record", "update_chest_memory">>) \o CriticOps(c)
    IN  IF c.outcome = "raised" THEN StepRaise(s3, "CriticError", o3)
        ELSE
        LET revert == s3.reset_placed_if_failed /\ ~c.success
            o4 == IF revert THEN Append(o3, "env.step:revert") ELSE o3
        IN  IF revert /\ fault = "env.step:revert"
            THEN StepRaise(s3, "GatewayError", o4)
            ELSE
            LET events2 == IF revert THEN PatchPlaced(events, new_events) ELSE events
                new_skills == retrieve_skills(sm, docs)
                o5 == Append(o4, "retrieve_skills")
            IN  IF new_skills.outcome = "raised"
                THEN StepRaise(s3, new_skills.error, o5)
                ELSE StepReturn(
                        [s3 EXCEPT
                           !.last_events = events2,
                           !.messages = Messages(Len(new_skills.value), s3.task,
                                                 s3.context, parsed.program_code,
                                                 c.critique)],
                        c.success, parsed, o5)

\* Voyager.step().  fault names the external call that raises in this
\* execution, ai is the parsed LLM answer, events / new_events what the
\* gateway answers, answers the critic LLM's answers.
step(self, sm, fault, ai, events, answers, new_events, docs) ==
    IF self.action_agent_rollout_num_iter < 0
    THEN StepRaise(self, "ValueError", <<>>)
    ELSE IF fault = "llm"
    THEN StepRaise(self, "LLMError", <<"llm:action">>)
    ELSE IF self.messages = NoMessages
    THEN StepRaise(self, "TypeError", <<"llm:action">>)
    ELSE
    LET s1 == [self EXCEPT !.conversations = Append(@, Turn(self.messages, ai))]
    IN  IF ai.kind = "code"
        THEN IF fault = "env.step"
             THEN StepRaise(s1, "GatewayError", <<"llm:action", "env.step">>)
             ELSE StepParseSuccess(s1, sm, fault, ai, events, answers, new_events,
                                   docs, <<"llm:action", "env.step">>)
        ELSE StepParseFailure(s1, ai, <<"llm:action">>)

\* the external calls of step() that may raise; the reversal step exists only
\* under the reset_placed_if_failed policy
StepFaults ==
    {"none", "llm", "env.step"} \cup
    (IF voyager.reset_placed_if_failed THEN {"env.step:revert"} ELSE {})

\* the gateway is asked only when the answer parsed and the LLM call returned
StepBatches(fault, ai) ==
    IF ai.kind = "code" /\ fault \notin {"llm", "env.step"}
    THEN GatewayBatches ELSE {<<Observe(1)>>}

\* the critic is asked only about an error-free batch
StepAnswers(fault, ai, events) ==
    IF ai.kind = "code" /\ fault \notin {"llm", "env.step"} /\ ~HasError(events)
    THEN CriticAnswers ELSE {<<Verdict(FALSE, "critique")>>}

IsGatewayCall(o) == o \in {"env.reset:soft", "env.reset:hard", "env.reset:seeded",
                           "env.step", "env.step:revert"}
IsLlmCall(o) == o \in {"llm:action", "llm:critic", "llm:skill", "propose_next_task"}
MadeIn(made, o) == \E i \in 1..Len(made) : made[i] = o

---------------------------------------------------------------------------
(* Curriculum planner *)

RECURSIVE Dedup(_)
Dedup(s) ==
    IF s = <<>> THEN <<>>
    ELSE LET front == Dedup(SubSeq(s, 1, Len(s) - 1))
             x == s[Len(s)]
         IN  IF \E i \in 1..Len(front) : front[i] = x THEN front ELSE Append(front, x)

Elems(s) == {s[i] : i \in 1..Len(s)}

Without(s, set) == SelectSeq(s, LAMBDA x : x \notin set)

\* a faulty variant: the task is appended and the lists are not cleaned up
update_exploration_progress_appending(self, info) ==
    IF info.success
    THEN [self EXCEPT !.completed_tasks = Append(@, info.task)]
    ELSE [self EXCEPT !.failed_tasks = Append(@, info.task)]

\* curriculum_agent.update_exploration_progress(info)
update_exploration_progress(self, info) ==
    LET completed == IF info.success THEN Dedup(Append(self.completed_tasks, info.task))
                     ELSE self.completed_tasks
        failed == IF info.success THEN self.failed_tasks
                  ELSE Dedup(Append(self.failed_tasks, info.task))
    IN  [self EXCEPT !.completed_tasks = completed,
                     !.failed_tasks = Without(failed, Elems(completed))]

\* curriculum_agent.progress: the pointer inference() reads.  It counts the
\* completed tasks, so clearing completed_tasks clears it.
progress(self) == Len(self.completed_tasks)

---------------------------------------------------------------------------
(* Bounds of the orchestrator *)

\* reset() and step() calls the caller makes in one behaviour
MaxCalls == 3
\* learn() calls the caller makes in one behaviour
MaxLearnCalls == 1
\* largest max_iterations a Voyager is constructed with
MaxIterations == 1
\* largest action_agent_task_max_retries a Voyager is constructed with
MaxRetries == 2
\* largest iteration counter a resumed recorder starts with
MaxResumedIteration == 1

Idle == [mode |-> "idle", pc |-> "", task |-> NoTask, context |-> "",
         reset_env |-> FALSE, info |-> <<>>, sub_goals |-> <<>>, rollouts |-> 0,
         started_from |-> NoEvents, called_at |-> 0]

Ret(op, outcome, error) ==
    [op |-> op, outcome |-> outcome, error |-> error, parsed |-> "", reward |-> 0,
     done |-> FALSE, success |-> FALSE, info |-> <<>>]

\* lines 212-220: the difficulty reset() sends to the gateway with its
\* env.step, "none" when the call did not get that far
DifficultySet(self, made) ==
    IF MadeIn(made, "env.step") THEN Difficulty(Len(self.completed_tasks)) ELSE "none"

\* how reset() ended, with the arguments of the call and the difficulty set
ResetRet(r, task, context, reset_env) ==
    [op |-> "reset", outcome |-> r.outcome, error |-> r.error, parsed |-> "",
     reward |-> 0, done |-> FALSE, success |-> FALSE, info |-> <<>>,
     task |-> task, context |-> context, reset_env |-> reset_env,
     difficulty |-> DifficultySet(r.self, r.ops)]

StepRet(r) ==
    [op |-> "step", outcome |-> r.outcome, error |-> r.error, parsed |-> r.parsed,
     reward |-> r.reward, done |-> r.done, success |-> r.success, info |-> r.info]

\* the gateway's answers to the reversal step, asked for only under the
\* reset_placed_if_failed policy
RevertBatches == IF voyager.reset_placed_if_failed THEN GatewayBatches ELSE {<<Observe(1)>>}

Docs == Rankings(skill_manager.vectordb, RetrieveK(skill_manager))

---------------------------------------------------------------------------
(* Actions of the caller: public methods invoked on an idle Voyager *)

\* voyager.reset(task, context, reset_env); the caller makes at most limit
\* calls
ResetCall(limit) ==
    /\ driver.mode = "idle"
    /\ calls < limit
    /\ \E task \in Tasks, context \in Contexts, reset_env \in BOOLEAN,
          fault \in ResetFaults, events \in GatewayBatches, docs \in Docs :
          LET r == reset(voyager, skill_manager, task, context, reset_env,
                         fault, events, docs)
          IN  /\ voyager' = r.self
              /\ ret' = ResetRet(r, task, context, reset_env)
              /\ ops' = r.ops
              /\ reset_completed' = (reset_completed \/ r.outcome = "returned")
    /\ calls' = calls + 1
    /\ UNCHANGED <<driver, skillVars>>

CallReset == ResetCall(MaxCalls)

\* voyager.step()
StepCall(limit) ==
    /\ driver.mode = "idle"
    /\ calls < limit
    /\ \E fault \in StepFaults, ai \in AiMessages, docs \in Docs :
       \E events \in StepBatches(fault, ai), new_events \in RevertBatches :
       \E answers \in StepAnswers(fault, ai, events) :
          LET r == step(voyager, skill_manager, fault, ai, events, answers,
                        new_events, docs)
          IN  /\ voyager' = r.self
              /\ ret' = StepRet(r)
              /\ ops' = r.ops
    /\ calls' = calls + 1
    /\ UNCHANGED <<driver, reset_completed, skillVars>>

CallStep == StepCall(MaxCalls)

---------------------------------------------------------------------------
(* learn(): the prologue, then one action per stage of the loop *)

\* a faulty variant: the session is never marked resumable
learn_begin_forgetful(self, fault, events) ==
    LET o1 == IF self.resume THEN <<"env.reset:soft">> ELSE <<"env.reset:hard">>
    IN  IF fault = "env.reset" THEN OpResult(self, "raised", "GatewayError", o1)
        ELSE IF fault = "env.step"
        THEN OpResult(self, "raised", "GatewayError", Append(o1, "env.step"))
        ELSE OpResult([self EXCEPT !.last_events = events], "running", "",
                      Append(o1, "env.step"))

\* lines 351-370: the environment reset that opens learn()
learn_begin(self, fault, events) ==
    LET o1 == IF self.resume THEN <<"env.reset:soft">> ELSE <<"env.reset:hard">>
    IN  IF fault = "env.reset" THEN OpResult(self, "raised", "GatewayError", o1)
        ELSE LET s1 == [self EXCEPT !.resume = TRUE]
                 o2 == Append(o1, "env.step")
             IN  IF fault = "env.step" THEN OpResult(s1, "raised", "GatewayError", o2)
                 ELSE OpResult([s1 EXCEPT !.last_events = events], "running", "", o2)

\* a faulty variant: the loop runs one iteration too far
LoopExitLate(iteration, max_iterations) == iteration > max_iterations + 1

\* line 373: the loop's exit test
LoopExit(iteration, max_iterations) == iteration > max_iterations

\* lines 389-395: try: rollout(...) except Exception: every error a rollout
\* raises enters the handler
Catch(d, error) == [d EXCEPT !.pc = "except"]

\* lines 398-401: info of a rollout that raised
ExceptInfo(task) == [task |-> task, success |-> FALSE]

\* voyager.learn(reset_env), up to the head of its loop; the caller makes
\* at most limit calls
LearnCall(limit) ==
    /\ driver.mode = "idle"
    /\ calls < limit
    /\ \E reset_env \in BOOLEAN, fault \in ResetFaults, events \in GatewayBatches :
          LET r == learn_begin(voyager, fault, events)
          IN  /\ voyager' = r.self
              /\ ret' = Ret("learn:begin", r.outcome, r.error)
              /\ ops' = r.ops
              /\ driver' = IF r.outcome = "raised" THEN Idle
                           ELSE [Idle EXCEPT !.mode = "learn", !.pc = "head",
                                             !.reset_env = reset_env,
                                             !.called_at = voyager.recorder.iteration]
    /\ calls' = calls + 1
    /\ UNCHANGED <<reset_completed, skillVars>>

CallLearn == LearnCall(MaxLearnCalls)

\* lines 372-388: the exit test and the proposal of the next task
LearnHead ==
    /\ driver.mode = "learn" /\ driver.pc = "head"
    /\ IF LoopExit(voyager.recorder.iteration, voyager.max_iterations)
       THEN /\ driver' = Idle
            /\ ret' = Ret("learn:head", "returned", "")
            /\ ops' = <<>>
       ELSE \E proposal \in Proposals, fault \in {"none", "propose"} :
               /\ ops' = <<"propose_next_task">>
               /\ IF fault = "propose"
                  THEN /\ driver' = Idle
                       /\ ret' = Ret("learn:head", "raised", "LLMError")
                  ELSE /\ driver' = [driver EXCEPT !.pc = "rollout_reset",
                                        !.task = proposal[1],
                                        !.context = proposal[2], !.info = <<>>,
                                        !.started_from = voyager.last_events]
                       /\ ret' = Ret("learn:head", "running", "")
    /\ UNCHANGED <<voyager, calls, reset_completed, skillVars>>

\* line 339: rollout's reset
LearnRolloutReset ==
    /\ driver.mode = "learn" /\ driver.pc = "rollout_reset"
    /\ \E fault \in ResetFaults, events \in GatewayBatches, docs \in Docs :
          LET r == reset(voyager, skill_manager, driver.task, driver.context,
                         driver.reset_env, fault, events, docs)
          IN  /\ voyager' = r.self
              /\ ret' = ResetRet(r, driver.task, driver.context, driver.reset_env)
              /\ ops' = r.ops
              /\ reset_completed' = (reset_completed \/ r.outcome = "returned")
              /\ driver' = IF r.outcome = "raised" THEN Catch(driver, r.error)
                           ELSE [driver EXCEPT !.pc = "rollout_step"]
    /\ UNCHANGED <<calls, skillVars>>

\* a faulty variant: the loop is left on a success only
RolloutNextOnSuccess(d, r) ==
    IF r.success THEN [d EXCEPT !.pc = "after", !.info = r.info] ELSE d

\* lines 342-344: `if done: break`, then the step's tuple is returned
RolloutNext(d, r) ==
    IF r.done THEN [d EXCEPT !.pc = "after", !.info = r.info] ELSE d

\* lines 340-344: one turn of rollout's loop
LearnRolloutStep ==
    /\ driver.mode = "learn" /\ driver.pc = "rollout_step"
    /\ \E fault \in StepFaults, ai \in AiMessages, docs \in Docs :
       \E events \in StepBatches(fault, ai), new_events \in RevertBatches :
       \E answers \in StepAnswers(fault, ai, events) :
          LET r == step(voyager, skill_manager, fault, ai, events, answers,
                        new_events, docs)
          IN  /\ voyager' = r.self
              /\ ret' = StepRet(r)
              /\ ops' = r.ops
              /\ driver' = IF r.outcome = "raised" THEN Catch(driver, r.error)
                           ELSE RolloutNext(driver, r)
    /\ UNCHANGED <<calls, reset_completed, skillVars>>

\* lines 407-411: the options the recovery reset is seeded with, taken from
\* self.last_events[-1][1]
Seed(last_events) ==
    [inventory |-> Last(last_events).inventory,
     equipment |-> Last(last_events).status,
     position |-> Last(last_events).status]

\* how the handler ended, with the seed it passed to env.reset
ExceptRet(outcome, error, seed) ==
    [op |-> "learn:except", outcome |-> outcome, error |-> error, parsed |-> "",
     reward |-> 0, done |-> FALSE, success |-> FALSE, info |-> <<>>, seed |-> seed]

\* lines 395-415: the handler of a rollout that raised
LearnExcept ==
    /\ driver.mode = "learn" /\ driver.pc = "except"
    /\ \E fault \in {"none", "env.reset"}, events \in GatewayBatches :
          /\ ops' = <<"sleep", "env.reset:seeded">>
          /\ IF fault = "env.reset"
             THEN /\ driver' = Idle
                  /\ ret' = ExceptRet("raised", "GatewayError", Seed(voyager.last_events))
                  /\ UNCHANGED voyager
             ELSE /\ driver' = [driver EXCEPT !.pc = "after",
                                   !.info = ExceptInfo(driver.task),
                                   !.started_from = NoEvents]
                  /\ ret' = ExceptRet("running", "", Seed(voyager.last_events))
                  /\ voyager' = [voyager EXCEPT !.last_events = events]
    /\ UNCHANGED <<calls, reset_completed, skillVars>>

\* a faulty variant: no rollout ever yields a skill
AddsSkillNever(info) == FALSE

\* line 417: `if info["success"]:`
AddsSkill(info) == info.success

\* lines 417-423: the skill store and the planner are updated
LearnAfter ==
    /\ driver.mode = "learn" /\ driver.pc = "after"
    /\ IF AddsSkill(driver.info)
       THEN \E fault \in AddFaults :
               LET r == add_new_skill(skill_manager, ckpt, driver.info,
                                      LlmText(driver.info.program_code), fault)
                   o == <<"add_new_skill">> \o [i \in 1..r.llm_calls |-> "llm:skill"]
               IN  /\ skill_manager' = r.sm
                   /\ ckpt' = r.ckpt
                   /\ IF r.outcome = "raised"
                      THEN /\ driver' = Idle
                           /\ ret' = Ret("learn:after", "raised", r.error)
                           /\ ops' = o
                           /\ UNCHANGED voyager
                      ELSE /\ driver' = [driver EXCEPT !.pc = "head", !.started_from = NoEvents]
                           /\ ret' = Ret("learn:after", "running", "")
                           /\ ops' = Append(o, "update_exploration_progress")
                           /\ voyager' = update_exploration_progress(voyager, driver.info)
       ELSE /\ driver' = [driver EXCEPT !.pc = "head", !.started_from = NoEvents]
            /\ ret' = Ret("learn:after", "running", "")
            /\ ops' = <<"update_exploration_progress">>
            /\ voyager' = update_exploration_progress(voyager, driver.info)
            /\ UNCHANGED <<skill_manager, ckpt>>
    /\ UNCHANGED <<calls, reset_completed, sm_ret, sm_ops>>

---------------------------------------------------------------------------
(* Initial states and specifications *)

\* the Voyager object as __init__ leaves it (lines 119-192)
NewVoyager(max_iterations, max_retries, reset_placed, resume, iteration) ==
    [max_iterations |-> max_iterations,
     action_agent_task_max_retries |-> max_retries,
     reset_placed_if_failed |-> reset_placed,
     resume |-> resume,
     action_agent_rollout_num_iter |-> -1,
     task |-> NoTask,
     context |-> "",
     messages |-> NoMessages,
     conversations |-> <<>>,
     last_events |-> NoEvents,
     recorder |-> [iteration |-> iteration, events |-> <<>>, task |-> NoTask],
     chest_memory |-> {},
     completed_tasks |-> <<>>,
     failed_tasks |-> <<>>]

\* the iteration counters a recorder can start with
StartIterations(resume) == IF resume THEN 0..MaxResumedIteration ELSE {0}

\* A fresh checkpoint directory, and the checkpoint an earlier run leaves
\* after adding one skill.
SavedCkpt ==
    add_new_skill(SkillManagerInit(EmptyCkpt, FALSE, 1).sm, EmptyCkpt,
                  [task |-> MineTask, success |-> TRUE,
                   program_name |-> Name("foo", <<>>), program_code |-> "code2"],
                  LlmText("code2"), "none").ckpt

\* Voyager(...) has been constructed: fresh, or resumed from a checkpoint.
Constructed(max_iterations, max_retries, reset_placed, resume, iteration) ==
    /\ voyager = NewVoyager(max_iterations, max_retries, reset_placed, resume, iteration)
    /\ ckpt = (IF resume THEN SavedCkpt ELSE EmptyCkpt)
    /\ skill_manager = SkillManagerInit(ckpt, resume, 1).sm
    /\ sm_ret = NoRet
    /\ sm_ops = 0
    /\ driver = Idle
    /\ ret = Ret("init", "returned", "")
    /\ ops = <<>>
    /\ calls = 0
    /\ reset_completed = FALSE

\* The configurations reset() and step() are explored in: every retry
\* ceiling and both settings of the reversal policy.  max_iterations is read
\* by learn() only.
Init ==
    \E max_retries \in 0..MaxRetries, reset_placed \in BOOLEAN, resume \in BOOLEAN :
        Constructed(MaxIterations, max_retries, reset_placed, resume, 0)

\* The configurations learn() is explored in: every iteration ceiling, retry
\* ceiling and starting counter, with the reversal policy off.
LearnInit ==
    \E max_iterations \in 0..MaxIterations, max_retries \in 0..MaxRetries,
       resume \in BOOLEAN :
        \E iteration \in StartIterations(resume) :
            Constructed(max_iterations, max_retries, FALSE, resume, iteration)

\* The caller drives reset() and step() itself.
Next ==
    \/ CallReset
    \/ CallStep

Spec == Init /\ [][Next]_vars

\* The caller runs learn().
LearnNext ==
    \/ CallLearn
    \/ LearnHead
    \/ LearnRolloutReset
    \/ LearnRolloutStep
    \/ LearnExcept
    \/ LearnAfter

LearnSpec == LearnInit /\ [][LearnNext]_vars

\* learn() with every external call answering or raising in finite time: a
\* stage of the loop that can run does run.  The caller is not obliged to
\* call learn().
LearnFairness ==
    /\ WF_vars(LearnHead)
    /\ WF_vars(LearnRolloutReset)
    /\ WF_vars(LearnRolloutStep)
    /\ WF_vars(LearnExcept)
    /\ WF_vars(LearnAfter)

LearnFairSpec == LearnInit /\ [][LearnNext]_vars /\ LearnFairness

\* The skill store on its own: no manager yet; the checkpoint directory is
\* empty or holds what an earlier run saved.
SkillInit ==
    /\ skill_manager = NoManager
    /\ ckpt \in {EmptyCkpt, SavedCkpt}
    /\ sm_ret = NoRet
    /\ sm_ops = 0
    /\ voyager = NewVoyager(0, 0, FALSE, FALSE, 0)
    /\ driver = Idle
    /\ ret = Ret("init", "returned", "")
    /\ ops = <<>>
    /\ calls = 0
    /\ reset_completed = FALSE

SkillSpec == SkillInit /\ [][SkillNext]_vars

\* learn() called again and again on one Voyager that allows itself one
\* iteration and one attempt per task.
MaxLearnStarts == 3

CallLearnAgain == LearnCall(MaxLearnStarts)

RelearnInit == \E resume \in BOOLEAN : Constructed(0, 0, FALSE, resume, 0)

RelearnNext ==
    \/ CallLearnAgain
    \/ LearnHead
    \/ LearnRolloutReset
    \/ LearnRolloutStep
    \/ LearnExcept
    \/ LearnAfter

RelearnSpec == RelearnInit /\ [][RelearnNext]_vars

---------------------------------------------------------------------------
(* inference(): the prologue, then one action per stage of the loop *)

\* inference() calls the caller makes in one behaviour
MaxInferCalls == 2
\* rollouts one inference() call is followed through
MaxInferRollouts == 2

\* the sub-goal lists a caller passes and decompose_task answers with; the
\* empty list is the caller's default
SubGoalLists == {<<>>, <<MineTask>>, <<MineTask, CraftTask>>}

\* decompose_task is asked only when the caller passed no sub-goals
Decompositions(sub_goals) == IF sub_goals = <<>> THEN SubGoalLists ELSE {<<>>}

InferFaults == {"none", "env.reset:decompose", "decompose", "env.reset", "env.step"}

\* what the prologue hands on: the outcome and the sub-goal list
GoalResult(self, outcome, error, made, value) ==
    [self |-> self, outcome |-> outcome, error |-> error, ops |-> made,
     value |-> value]

\* lines 441-449: decompose_task(task).  The environment is hard-reset when
\* no events were seen yet, then the planner is asked.
decompose_task(self, task, fault, decomposition, events) ==
    LET lazy == self.last_events = NoEvents
        o1 == IF lazy THEN <<"env.reset:hard">> ELSE <<>>
        s1 == IF lazy THEN [self EXCEPT !.last_events = events] ELSE self
        o2 == Append(o1, "decompose_task")
    IN  IF lazy /\ fault = "env.reset:decompose"
        THEN GoalResult(self, "raised", "GatewayError", o1, <<>>)
        ELSE IF fault = "decompose"
        THEN GoalResult(s1, "raised", "LLMError", o2, <<>>)
        ELSE GoalResult(s1, "returned", "", o2, decomposition)

\* a faulty variant: the arguments are not looked at before work starts
MissingGoalUnchecked(task, sub_goals) == FALSE

\* line 452: `not task and not sub_goals`
MissingGoal(task, sub_goals) == task = NoTask /\ sub_goals = <<>>

\* a faulty variant: the planner's lists are not cleared
inference_begin_keeping_lists(self, task, sub_goals, reset_mode, fault, decomposition, events) ==
    IF MissingGoal(task, sub_goals)
    THEN GoalResult(self, "raised", "ValueError", <<>>, <<>>)
    ELSE LET d == IF sub_goals = <<>>
                  THEN decompose_task(self, task, fault, decomposition, events)
                  ELSE GoalResult(self, "returned", "", <<>>, sub_goals)
             o1 == Append(d.ops, "env.reset:" \o reset_mode)
             s1 == d.self
             o2 == Append(o1, "env.step")
         IN  IF d.outcome = "raised" THEN d
             ELSE IF fault = "env.reset"
             THEN GoalResult(d.self, "raised", "GatewayError", o1, d.value)
             ELSE IF fault = "env.step"
             THEN GoalResult(s1, "raised", "GatewayError", o2, d.value)
             ELSE GoalResult([s1 EXCEPT !.last_events = events], "running", "", o2, d.value)

\* lines 452-464: inference() up to the head of its loop.  value is the
\* sub-goal list the loop will run.
inference_begin(self, task, sub_goals, reset_mode, fault, decomposition, events) ==
    IF MissingGoal(task, sub_goals)
    THEN GoalResult(self, "raised", "ValueError", <<>>, <<>>)
    ELSE LET d == IF sub_goals = <<>>
                  THEN decompose_task(self, task, fault, decomposition, events)
                  ELSE GoalResult(self, "returned", "", <<>>, sub_goals)
             o1 == Append(d.ops, "env.reset:" \o reset_mode)
             s1 == [d.self EXCEPT !.completed_tasks = <<>>, !.failed_tasks = <<>>]
             o2 == Append(o1, "env.step")
         IN  IF d.outcome = "raised" THEN d
             ELSE IF fault = "env.reset"
             THEN GoalResult(d.self, "raised", "GatewayError", o1, d.value)
             ELSE IF fault = "env.step"
             THEN GoalResult(s1, "raised", "GatewayError", o2, d.value)
             ELSE GoalResult([s1 EXCEPT !.last_events = events], "running", "", o2, d.value)

\* how the prologue ended, with the arguments of the call
InferRet(r, task, sub_goals) ==
    [op |-> "inference:begin", outcome |-> r.outcome, error |-> r.error,
     parsed |-> "", reward |-> 0, done |-> FALSE, success |-> FALSE,
     info |-> <<>>, task |-> task, sub_goals |-> sub_goals]

\* voyager.inference(task, sub_goals, reset_mode, reset_env); the caller
\* makes at most limit calls
InferenceCall(limit) ==
    /\ driver.mode = "idle"
    /\ calls < limit
    /\ \E task \in {NoTask, MineTask}, sub_goals \in SubGoalLists,
          reset_mode \in {"hard", "soft"}, reset_env \in {TRUE},
          fault \in InferFaults, events \in GatewayBatches :
       \E decomposition \in Decompositions(sub_goals) :
          LET r == inference_begin(voyager, task, sub_goals, reset_mode, fault,
                                   decomposition, events)
          IN  /\ voyager' = r.self
              /\ ret' = InferRet(r, task, sub_goals)
              /\ ops' = r.ops
              /\ driver' = IF r.outcome = "raised" THEN Idle
                           ELSE [Idle EXCEPT !.mode = "inference", !.pc = "head",
                                             !.reset_env = reset_env,
                                             !.sub_goals = r.value]
    /\ calls' = calls + 1
    /\ UNCHANGED <<reset_completed, skillVars>>

CallInference == InferenceCall(MaxInferCalls)

\* lines 465-467: the loop test, the next sub-goal and its context
InferHead ==
    /\ driver.mode = "inference" /\ driver.pc = "head"
    /\ IF progress(voyager) < Len(driver.sub_goals)
       THEN /\ driver.rollouts < MaxInferRollouts
            /\ \E context \in Contexts, fault \in {"none", "context"} :
                  /\ ops' = <<"get_task_context">>
                  /\ IF fault = "context"
                     THEN /\ driver' = Idle
                          /\ ret' = Ret("inference:head", "raised", "LLMError")
                     ELSE /\ driver' = [driver EXCEPT !.pc = "rollout_reset",
                                           !.task = driver.sub_goals[progress(voyager) + 1],
                                           !.context = context, !.info = <<>>,
                                           !.rollouts = @ + 1]
                          /\ ret' = Ret("inference:head", "running", "")
       ELSE /\ driver' = Idle
            /\ ret' = Ret("inference:head", "returned", "")
            /\ ops' = <<>>
    /\ UNCHANGED <<voyager, calls, reset_completed, skillVars>>

\* line 339 under inference(): rollout's reset; nothing catches what it raises
InferRolloutReset ==
    /\ driver.mode = "inference" /\ driver.pc = "rollout_reset"
    /\ \E fault \in ResetFaults, events \in GatewayBatches, docs \in Docs :
          LET r == reset(voyager, skill_manager, driver.task, driver.context,
                         driver.reset_env, fault, events, docs)
          IN  /\ voyager' = r.self
              /\ ret' = ResetRet(r, driver.task, driver.context, driver.reset_env)
              /\ ops' = r.ops
              /\ reset_completed' = (reset_completed \/ r.outcome = "returned")
              /\ driver' = IF r.outcome = "raised" THEN Idle
                           ELSE [driver EXCEPT !.pc = "rollout_step"]
    /\ UNCHANGED <<calls, skillVars>>

\* lines 340-344 under inference(): one turn of rollout's loop
InferRolloutStep ==
    /\ driver.mode = "inference" /\ driver.pc = "rollout_step"
    /\ \E fault \in StepFaults, ai \in AiMessages, docs \in Docs :
       \E events \in StepBatches(fault, ai), new_events \in RevertBatches :
       \E answers \in StepAnswers(fault, ai, events) :
          LET r == step(voyager, skill_manager, fault, ai, events, answers,
                        new_events, docs)
          IN  /\ voyager' = r.self
              /\ ret' = StepRet(r)
              /\ ops' = r.ops
              /\ driver' = IF r.outcome = "raised" THEN Idle
                           ELSE RolloutNext(driver, r)
    /\ UNCHANGED <<calls, reset_completed, skillVars>>

\* line 476: the planner is told how the rollout ended
InferAfter ==
    /\ driver.mode = "inference" /\ driver.pc = "after"
    /\ voyager' = update_exploration_progress(voyager, driver.info)
    /\ driver' = [driver EXCEPT !.pc = "head"]
    /\ ret' = Ret("inference:after", "running", "")
    /\ ops' = <<"update_exploration_progress">>
    /\ UNCHANGED <<calls, reset_completed, skillVars>>

InferInit == Constructed(0, 1, FALSE, FALSE, 0)

InferNext ==
    \/ CallInference
    \/ InferHead
    \/ InferRolloutReset
    \/ InferRolloutStep
    \/ InferAfter

InferSpec == InferInit /\ [][InferNext]_vars

\* The critic on its own: check_task_success applied to every event list,
\* retry bound and run of LLM answers within the bounds.
MaxEvents == 2
MaxResponses == 3
MaxCriticRetries == 3

RECURSIVE SeqsUpTo(_, _)
SeqsUpTo(set, n) ==
    IF n = 0 THEN {<<>>}
    ELSE LET shorter == SeqsUpTo(set, n - 1)
         IN  shorter \cup {Append(q, x) : q \in shorter, x \in set}

CriticEventLists == SeqsUpTo({Observe(1), OnError}, MaxEvents) \ {<<>>}

CriticResponses ==
    SeqsUpTo({Malformed, Verdict(TRUE, "good"), Verdict(FALSE, "critique")}, MaxResponses)

CriticModes == {"auto", "manual"}

\* The critic keeps no state between calls: one call per behaviour.
CriticCheck ==
    /\ ret.op = "init"
    /\ \E mode \in CriticModes, events \in CriticEventLists,
          responses \in CriticResponses, human \in {Verdict(TRUE, ""), Verdict(FALSE, "no")},
          max_retries \in 0..MaxCriticRetries :
          LET c == check_task_success_in(mode, events, responses, human, max_retries)
          IN  ret' = [op |-> "critic", mode |-> mode, events |-> events,
                      responses |-> responses, max_retries |-> max_retries,
                      outcome |-> c.outcome, success |-> c.success,
                      critique |-> c.critique, llm_calls |-> c.llm_calls,
                      asked_human |-> AsksHuman(mode, events)]
    /\ ops' = <<"check_task_success">>
    /\ UNCHANGED <<voyager, driver, calls, reset_completed, skillVars>>

CriticInit == Constructed(MaxIterations, MaxRetries, FALSE, FALSE, 0)

CriticSpec == CriticInit /\ [][CriticCheck]_vars

\* The planner's bookkeeping on its own: the reports learn() and inference()
\* hand to update_exploration_progress, in any order.
MaxPlannerOps == 5

\* info as step() returns it (lines 321-331) and as learn()'s handler
\* builds it (lines 398-401)
Reports ==
    {StepInfo(t, TRUE, <<>>, AiCode) : t \in {MineTask, CraftTask}}
    \cup {StepInfo(t, FALSE, <<>>, AiText) : t \in {MineTask, CraftTask}}
    \cup {ExceptInfo(t) : t \in {MineTask, CraftTask}}

PlannerUpdate ==
    /\ calls < MaxPlannerOps
    /\ \E info \in Reports :
          /\ voyager' = update_exploration_progress(voyager, info)
          /\ ret' = [Ret("update", "returned", "") EXCEPT !.info = info]
    /\ calls' = calls + 1
    /\ ops' = <<"update_exploration_progress">>
    /\ UNCHANGED <<driver, reset_completed, skillVars>>

PlannerInit == Constructed(MaxIterations, MaxRetries, FALSE, FALSE, 0)

PlannerSpec == PlannerInit /\ [][PlannerUpdate]_vars

\* Checkpoint directories as they may be found when somebody other than the
\* SkillManager has written to them: any manifest, any index.
FoundNames == {Name("foo", <<>>), Name("bar", <<>>)}

ManifestEntry(n) ==
    [code |-> "code1", description |-> generate_skill_description(n, LlmText("code1"))]

FoundCkpts ==
    {[EmptyCkpt EXCEPT !.skills_json = [exists |-> TRUE,
                                        data |-> [n \in names |-> ManifestEntry(n)]],
                       !.vectordb = ids] :
        names \in SUBSET FoundNames, ids \in SUBSET FoundNames}

SkillFoundInit ==
    /\ skill_manager = NoManager
    /\ ckpt \in FoundCkpts
    /\ sm_ret = NoRet
    /\ sm_ops = 0
    /\ voyager = NewVoyager(0, 0, FALSE, FALSE, 0)
    /\ driver = Idle
    /\ ret = Ret("init", "returned", "")
    /\ ops = <<>>
    /\ calls = 0
    /\ reset_completed = FALSE

SkillFoundSpec == SkillFoundInit /\ [][SkillNext]_vars

\* One Voyager used for both loops: the caller runs learn() first and
\* inference() on what learn() left behind.
SessionInit == Constructed(0, 1, FALSE, FALSE, 0)

SessionLearn == ret.op = "init" /\ CallLearn
SessionInference == ret.op # "init" /\ CallInference

SessionNext ==
    \/ SessionLearn
    \/ SessionInference
    \/ LearnHead
    \/ LearnRolloutReset
    \/ LearnRolloutStep
    \/ LearnExcept
    \/ LearnAfter
    \/ InferHead
    \/ InferRolloutReset
    \/ InferRolloutStep
    \/ InferAfter

SessionSpec == SessionInit /\ [][SessionNext]_vars

\* reset() on a Voyager whose planner has completed any number of tasks up
\* to MaxCompleted.
MaxCompleted == 17

NumberedTask(i) == <<"Task", ToString(i)>>

DifficultyInit ==
    /\ \E n \in 0..MaxCompleted, max_retries \in 0..MaxRetries :
          voyager = [NewVoyager(0, max_retries, FALSE, FALSE, 0)
                        EXCEPT !.completed_tasks = [i \in 1..n |-> NumberedTask(i)]]
    /\ ckpt = EmptyCkpt
    /\ skill_manager = SkillManagerInit(ckpt, FALSE, 1).sm
    /\ sm_ret = NoRet
    /\ sm_ops = 0
    /\ driver = Idle
    /\ ret = Ret("init", "returned", "")
    /\ ops = <<>>
    /\ calls = 0
    /\ reset_completed = FALSE

DifficultyReset == ret.op = "init" /\ CallReset

DifficultySpec == DifficultyInit /\ [][DifficultyReset]_vars

---------------------------------------------------------------------------
(* Voyager.__init__ *)

\* no Voyager object exists: before construction, and after a constructor
\* that raised
NoVoyager == [state |-> "absent"]

\* the sub-agents in the order __init__ builds them
SubAgents == <<"action_agent", "curriculum_agent", "critic_agent", "skill_manager">>

CtorOf(agent) ==
    CASE agent = "action_agent" -> "ActionAgent"
      [] agent = "curriculum_agent" -> "CurriculumAgent"
      [] agent = "critic_agent" -> "CriticAgent"
      [] agent = "skill_manager" -> "SkillManager"

TestOf(agent) == agent \o ".test_yourself"

\* test_yourself(): the LLM is asked once; True unless the call raised
test_yourself(llm_answers) == llm_answers

\* a faulty variant: a failed self-test is ignored
AbortsOnNever(passed) == FALSE

\* `if not self.<agent>.test_yourself(): raise RuntimeError(...)`
AbortsOn(passed) == ~passed

\* what __init__ hands back: the object (or none), the skill manager it
\* built (or none), and the constructors and self-tests it ran
InitResult(self, sm, error, made) ==
    [self |-> self, sm |-> sm, outcome |-> IF error = "" THEN "returned" ELSE "raised",
     error |-> error, ops |-> made]

\* lines 113-192.  llm[a] tells whether the LLM backend of sub-agent a
\* answers its self-test; library is `skill_library_dir` being given.
voyager_init(ck, resume, library, iteration, max_retries, llm) ==
    LET o1 == <<"VoyagerEnv", "ActionAgent", TestOf("action_agent")>>
        o2 == o1 \o <<"CurriculumAgent", TestOf("curriculum_agent")>>
        o3 == o2 \o <<"CriticAgent", TestOf("critic_agent")>>
        o4 == Append(o3, "SkillManager")
        o5 == Append(o4, TestOf("skill_manager"))
        o6 == Append(o5, "EventRecorder")
        m == SkillManagerInit(ck, resume \/ library, 1)
    IN  IF AbortsOn(test_yourself(llm["action_agent"]))
        THEN InitResult(NoVoyager, NoManager, "RuntimeError", o1)
        ELSE IF AbortsOn(test_yourself(llm["curriculum_agent"]))
        THEN InitResult(NoVoyager, NoManager, "RuntimeError", o2)
        ELSE IF AbortsOn(test_yourself(llm["critic_agent"]))
        THEN InitResult(NoVoyager, NoManager, "RuntimeError", o3)
        ELSE IF m.error # ""
        THEN InitResult(NoVoyager, NoManager, m.error, o4)
        ELSE IF AbortsOn(test_yourself(llm["skill_manager"]))
        THEN InitResult(NoVoyager, NoManager, "RuntimeError", o5)
        ELSE InitResult(NewVoyager(MaxIterations, max_retries, FALSE, resume, iteration),
                        m.sm, "", o6)

Range(seq) == {seq[i] : i \in 1..Len(seq)}

\* Voyager(...)
VoyagerConstruct ==
    /\ voyager = NoVoyager
    /\ ret.op = "init"
    /\ \E resume \in BOOLEAN, library \in BOOLEAN, max_retries \in 0..MaxRetries,
          llm \in [Range(SubAgents) -> BOOLEAN] :
       \E iteration \in StartIterations(resume) :
          LET r == voyager_init(ckpt, resume, library, iteration, max_retries, llm)
          IN  /\ voyager' = r.self
              /\ skill_manager' = r.sm
              /\ ops' = r.ops
              /\ ret' = [op |-> "construct", outcome |-> r.outcome, error |-> r.error,
                         llm |-> llm]
    /\ calls' = calls + 1
    /\ UNCHANGED <<ckpt, sm_ret, sm_ops, driver, reset_completed>>

\* Nothing is constructed yet; the checkpoint directory holds any manifest
\* and any index.
ConstructInit ==
    /\ skill_manager = NoManager
    /\ ckpt \in FoundCkpts
    /\ sm_ret = NoRet
    /\ sm_ops = 0
    /\ voyager = NoVoyager
    /\ driver = Idle
    /\ ret = Ret("init", "returned", "")
    /\ ops = <<>>
    /\ calls = 0
    /\ reset_completed = FALSE

ConstructSpec == ConstructInit /\ [][VoyagerConstruct]_vars

---------------------------------------------------------------------------
(* Properties *)

Returned(r) == r.outcome = "returned"

GatewayCallsIn(made) == {i \in 1..Len(made) : IsGatewayCall(made[i])}

\* C1: a step() invoked on a Voyager no reset() has completed on raises
\* ValueError, and makes no LLM call, no gateway call and no recorder write.
C1_StepBeforeResetRaisesValueError ==
    (ret.op = "step" /\ ~reset_completed)
        => /\ ret.outcome = "raised"
           /\ ret.error = "ValueError"
           /\ ops = <<>>

\* C2: a step whose model reply does not parse as a program makes no gateway
\* call, leaves the chest memory as it was, and records exactly one batch:
\* the empty event list against the current task.
C2_ParseFailureTouchesNothing ==
    [][(ret'.op = "step" /\ Returned(ret') /\ ret'.parsed = "text")
          => /\ GatewayCallsIn(ops') = {}
             /\ voyager'.chest_memory = voyager.chest_memory
             /\ voyager'.recorder = [iteration |-> voyager.recorder.iteration + 1,
                                     events |-> <<>>, task |-> voyager.task]
             /\ Cardinality({i \in 1..Len(ops') : ops'[i] = "recorder.record"}) = 1
             /\ voyager'.task = voyager.task]_vars

C2_Witness ==
    /\ ret.op = "step" /\ Returned(ret) /\ ret.parsed = "text"
    /\ voyager.recorder.events = <<>>
    /\ voyager.recorder.task = voyager.task
    /\ voyager.recorder.iteration = 1
    /\ MadeIn(ops, "llm:action")

\* C3: every step() that returns has moved the retry counter up by exactly
\* one, and reports done exactly when the moved counter has reached
\* action_agent_task_max_retries or the critic judged the task a success.
C3_CounterAndDone ==
    [][(ret'.op = "step" /\ Returned(ret'))
          => /\ voyager'.action_agent_rollout_num_iter
                    = voyager.action_agent_rollout_num_iter + 1
             /\ ret'.done <=> (\/ voyager'.action_agent_rollout_num_iter
                                     >= voyager'.action_agent_task_max_retries
                               \/ ret'.success)]_vars

\* a parsed program was executed, the critic said no, and the ceiling (2)
\* was reached on this very step
C3_Witness ==
    /\ ret.op = "step" /\ Returned(ret) /\ ret.parsed = "code"
    /\ ~ret.success /\ ret.done
    /\ voyager.action_agent_task_max_retries = 2
    /\ voyager.action_agent_rollout_num_iter = 2

ExceptionReport(info) == DOMAIN info = {"task", "success"}

\* C4: when a rollout raises inside learn(), learn() does not raise: the
\* handler runs and hard-resets the environment, the task is reported to the
\* planner with success = False, no skill is added for it, and the loop is
\* back at its head for the next proposal.
C4_RolloutErrorIsHandled ==
    [][/\ (/\ driver.mode = "learn"
           /\ driver.pc \in {"rollout_reset", "rollout_step"}
           /\ ret'.outcome = "raised")
          => (driver'.mode = "learn" /\ driver'.pc = "except")
       /\ (driver.mode = "learn" /\ driver.pc = "except")
          => /\ MadeIn(ops', "env.reset:seeded")
             /\ ret'.outcome # "raised"
             /\ driver'.mode = "learn" /\ driver'.pc = "after"
             /\ driver'.info = [task |-> driver.task, success |-> FALSE]
       /\ (driver.mode = "learn" /\ driver.pc = "after" /\ ExceptionReport(driver.info))
          => /\ ~MadeIn(ops', "add_new_skill")
             /\ skill_manager' = skill_manager /\ ckpt' = ckpt
             /\ MadeIn(ops', "update_exploration_progress")
             /\ voyager' = update_exploration_progress(
                               voyager, [task |-> driver.task, success |-> FALSE])
             /\ driver'.mode = "learn" /\ driver'.pc = "head"]_vars

\* C5: no error raised in a learn() iteration (proposing, running, the
\* recovery reset, persisting the skill, updating progress) leaves learn().
C5_NoErrorLeavesTheLoop ==
    ~(ret.op \in {"learn:head", "learn:except", "learn:after"} /\ ret.outcome = "raised")

\* C6: learn() proposes a task and starts a rollout only while the
\* recorder's counter is at most max_iterations; when the counter exceeds
\* max_iterations at the head of the loop learn() returns, and has then
\* proposed nothing and run nothing.
C6_IterationBudget ==
    [][/\ (MadeIn(ops', "propose_next_task") \/ (driver'.pc = "rollout_reset" /\ driver.pc = "head"))
          => voyager.recorder.iteration <= voyager.max_iterations
       /\ (driver.mode = "learn" /\ driver.pc = "head")
          => /\ voyager.recorder.iteration <= voyager.max_iterations
                  => MadeIn(ops', "propose_next_task")
             /\ voyager.recorder.iteration > voyager.max_iterations
                  => /\ driver'.mode = "idle"
                     /\ ret' = Ret("learn:head", "returned", "")
                     /\ ops' = <<>>
                     /\ voyager' = voyager]_vars

\* learn() called with the counter already over the budget has returned
\* without a proposal and without a rollout
C6_Witness ==
    /\ ret.op = "learn:head" /\ Returned(ret)
    /\ driver.mode = "idle"
    /\ voyager.max_iterations = 0
    /\ voyager.recorder.iteration = 1
    /\ voyager.action_agent_rollout_num_iter = -1
    /\ voyager.completed_tasks = <<>> /\ voyager.failed_tasks = <<>>

\* C7: after every add_new_skill call that returns, the similarity index and
\* the manifest have the same cardinality and the same key set.
C7_IndexMatchesManifestAfterAdd ==
    (sm_ret.op = "add" /\ Returned(sm_ret))
        => /\ Cardinality(skill_manager.vectordb) = Cardinality(DOMAIN skill_manager.skills)
           /\ skill_manager.vectordb = DOMAIN skill_manager.skills

\* C8: a SkillManager whose construction succeeded holds an index and a
\* manifest with the same cardinality and the same key set.
C8_ConstructedMeansConsistent ==
    (sm_ret.op = "init" /\ Returned(sm_ret))
        => /\ Cardinality(skill_manager.vectordb) = Cardinality(DOMAIN skill_manager.skills)
           /\ skill_manager.vectordb = DOMAIN skill_manager.skills

\* C9: retrieve_skills returns at most min(retrieval_top_k, number of stored
\* skills) programs, each the code of a skill in the manifest, and the empty
\* list when nothing is stored.
C9_RetrievalIsBounded ==
    (sm_ret.op = "retrieve" /\ Returned(sm_ret))
        => /\ Len(sm_ret.value) <= skill_manager.retrieval_top_k
           /\ Len(sm_ret.value) <= Cardinality(skill_manager.vectordb)
           /\ Len(sm_ret.value) <= Cardinality(DOMAIN skill_manager.skills)
           /\ \A i \in 1..Len(sm_ret.value) :
                 \E n \in DOMAIN skill_manager.skills :
                     sm_ret.value[i] = skill_manager.skills[n].code
           /\ skill_manager.vectordb = {} => sm_ret.value = <<>>

\* two skills are stored and a manager with top-k 1 returned one program
C9_Witness ==
    /\ sm_ret.op = "retrieve" /\ Returned(sm_ret)
    /\ skill_manager.retrieval_top_k = 1
    /\ Cardinality(skill_manager.vectordb) = 2
    /\ Len(sm_ret.value) = 1

Preserved(before, after) ==
    \A f \in DOMAIN before : f \in DOMAIN after /\ after[f] = before[f]

\* C10: adding a skill under a name the manifest already holds overwrites no
\* code file and no description file that existed before the call.
C10_ReAddKeepsEarlierFiles ==
    [][(/\ sm_ops' = sm_ops + 1
        /\ sm_ret'.op = "add"
        /\ sm_ret'.info.program_name \in DOMAIN skill_manager.skills)
          => /\ Preserved(ckpt.code, ckpt'.code)
             /\ Preserved(ckpt.description, ckpt'.description)]_vars

\* "foo" was added and re-added: the re-addition, with another code, went
\* to a fresh alias file and the original file still holds the first code
C10_Witness ==
    LET foo == Name("foo", <<>>)
    IN  /\ sm_ret.op = "add" /\ Returned(sm_ret)
        /\ sm_ret.info.program_name = foo
        /\ {foo, Alias(foo, 2), Alias(foo, 3)} \subseteq DOMAIN ckpt.code
        /\ ckpt.code[Alias(foo, 3)] = sm_ret.info.program_code
        /\ ckpt.code[foo] # ckpt.code[Alias(foo, 3)]
        /\ skill_manager.skills[foo].code = ckpt.code[Alias(foo, 3)]

\* a SkillManager call has just been made: add_new_skill for a task other
\* than the deposit task
NonDepositAdd ==
    /\ sm_ops' = sm_ops + 1
    /\ sm_ret'.op = "add"
    /\ ~startswith(sm_ret'.info.task, DepositPrefix)

\* C11: when add_new_skill returns for a name the manifest already holds,
\* the code file under the original name holds the new code and the file
\* under the first unused alias NameV<i> holds the code of the old version.
C11_OldVersionGoesToAlias ==
    [][(/\ NonDepositAdd
        /\ Returned(sm_ret')
        /\ sm_ret'.info.program_name \in DOMAIN skill_manager.skills)
          => LET n == sm_ret'.info.program_name
                 a == Alias(n, FirstUnusedSuffix(n, DOMAIN ckpt.code, 2))
             IN  /\ n \in DOMAIN ckpt'.code
                 /\ ckpt'.code[n] = sm_ret'.info.program_code
                 /\ a \in DOMAIN ckpt'.code
                 /\ ckpt'.code[a] = skill_manager.skills[n].code]_vars

\* C12: last writer wins.  An add_new_skill that returns for a task other
\* than the deposit task leaves under its name the code and description of
\* this call and the other entries as they were; a deposit report changes
\* no entry; and after every returning call each name of the manifest is in
\* the index and each id of the index is in the manifest.
C12_LastWriterWins ==
    [][(sm_ops' = sm_ops + 1 /\ sm_ret'.op = "add" /\ Returned(sm_ret'))
          => /\ skill_manager'.vectordb = DOMAIN skill_manager'.skills
             /\ IF startswith(sm_ret'.info.task, DepositPrefix)
                THEN skill_manager'.skills = skill_manager.skills
                ELSE LET n == sm_ret'.info.program_name
                     IN  /\ n \in DOMAIN skill_manager'.skills
                         /\ skill_manager'.skills[n].code = sm_ret'.info.program_code
                         /\ skill_manager'.skills[n].description
                               = generate_skill_description(
                                     n, LlmText(sm_ret'.info.program_code))
                         /\ \A m \in DOMAIN skill_manager.skills \ {n} :
                               /\ m \in DOMAIN skill_manager'.skills
                               /\ skill_manager'.skills[m] = skill_manager.skills[m]
                         /\ DOMAIN skill_manager'.skills
                               = DOMAIN skill_manager.skills \cup {n}]_vars

NoDuplicate(seq) == \A i, j \in 1..Len(seq) : i # j => seq[i] # seq[j]

Recorded(self) == Elems(self.completed_tasks) \cup Elems(self.failed_tasks)

\* C13: after every update_exploration_progress the reported task is in
\* exactly one of completed_tasks / failed_tasks, the two lists share no
\* task, neither holds a duplicate, no task recorded before is lost, and
\* progress moves only forward and only on a success.
C13_PlannerBookkeeping ==
    [][ret'.op = "update"
          => LET t == ret'.info.task
             IN  /\ (t \in Elems(voyager'.completed_tasks))
                        # (t \in Elems(voyager'.failed_tasks))
                 /\ Elems(voyager'.completed_tasks) \cap Elems(voyager'.failed_tasks) = {}
                 /\ NoDuplicate(voyager'.completed_tasks)
                 /\ NoDuplicate(voyager'.failed_tasks)
                 /\ Recorded(voyager') = Recorded(voyager) \cup {t}
                 /\ progress(voyager') >= progress(voyager)
                 /\ progress(voyager') > progress(voyager) => ret'.info.success]_vars

\* three reports about two tasks, so one task was reported again: one task
\* ended completed, the other failed
C13_Witness ==
    /\ ret.op = "update"
    /\ calls = 3
    /\ voyager.completed_tasks = <<MineTask>>
    /\ voyager.failed_tasks = <<CraftTask>>
    /\ progress(voyager) = 1

\* C14: for every event list holding an onError event, at any position,
\* check_task_success returns (False, "") with no LLM call, without raising
\* and without asking anybody else for a verdict.
C14_ErrorEventMeansFailure ==
    (ret.op = "critic" /\ HasError(ret.events))
        => /\ ret.outcome = "returned"
           /\ ret.success = FALSE /\ ret.critique = ""
           /\ ret.llm_calls = 0
           /\ ~ret.asked_human

\* the first well-formed answer among the first n of a run of answers, 0 if none
FirstWellFormed(responses, n) ==
    LET good == {i \in 1..Min(n, Len(responses)) : responses[i].ok}
    IN  IF good = {} THEN 0 ELSE CHOOSE i \in good : \A j \in good : i <= j

\* C15: in automatic mode, on an error-free event list and with
\* max_retries = n, the critic makes at most n LLM calls; when it returns
\* it returns the verdict of the first well-formed answer, having made as
\* many calls as answers were read, and (False, "") after n malformed
\* answers; with n = 0 it makes no call.
C15_CriticRetriesAreBounded ==
    (/\ ret.op = "critic" /\ ret.mode = "auto"
     /\ ~HasError(ret.events) /\ Last(ret.events).type = "observe")
        => LET n == ret.max_retries
               k == FirstWellFormed(ret.responses, n)
           IN  /\ ret.llm_calls <= n
               /\ n = 0 => (ret.outcome = "returned" /\ ret.llm_calls = 0)
               /\ ret.outcome \in {"returned", "raised"}
               /\ ret.outcome = "returned"
                    => IF k > 0
                       THEN /\ ret.success = ret.responses[k].success
                            /\ ret.critique = ret.responses[k].critique
                            /\ ret.llm_calls = k
                       ELSE /\ ret.success = FALSE /\ ret.critique = ""
                            /\ ret.llm_calls = n
               /\ (k > 0 \/ Len(ret.responses) >= n) => ret.outcome = "returned"

\* two malformed answers, then a verdict of success at the third and last
\* attempt allowed
C15_Witness ==
    /\ ret.op = "critic" /\ ret.mode = "auto"
    /\ ret.events = <<Observe(1)>>
    /\ ret.max_retries = 3
    /\ ret.responses = <<Malformed, Malformed, Verdict(TRUE, "good")>>
    /\ ret.success /\ ret.critique = "good"
    /\ ret.llm_calls = 3

\* C16: a step() that returns reports success only when the reply parsed
\* into a program and the critic judged the task a success; its info holds
\* task, success and the conversation history always, program_code and
\* program_name exactly when success is true; the reward is 0.
C16_StepReport ==
    (ret.op = "step" /\ Returned(ret))
        => /\ ret.success => /\ ret.parsed = "code"
                             /\ MadeIn(ops, "critic:success")
                             /\ ret.info.program_code = AiCode.program_code
                             /\ ret.info.program_name = AiCode.program_name
           /\ MadeIn(ops, "critic:failure") => ~ret.success
           /\ DOMAIN ret.info
                = IF ret.success
                  THEN {"task", "success", "conversations", "program_code", "program_name"}
                  ELSE {"task", "success", "conversations"}
           /\ ret.info.task = voyager.task
           /\ ret.info.success = ret.success
           /\ ret.info.conversations = voyager.conversations
           /\ Len(voyager.conversations) >= 1
           /\ ret.reward = 0

\* a program was executed and judged a success: the step returned it in
\* its info and reported done
C16_Witness ==
    /\ ret.op = "step" /\ Returned(ret)
    /\ ret.parsed = "code" /\ ret.success /\ ret.done
    /\ MadeIn(ops, "critic:success")
    /\ ret.info.program_name = Name("foo", <<>>)
    /\ ret.info.program_code = "code1"

Max(a, b) == IF a >= b THEN a ELSE b

\* the steps of the current rollout that got as far as the model's reply:
\* reset() empties the conversation history and each such step extends it
StepsTaken(self) == Len(self.conversations)

\* C17: a rollout resets once and then steps; it steps again only after a
\* step that returned without done (hence without success), it ends at the
\* first step that returns done, handing on that step's info, and it has
\* then made at least 1 and at most max(1, action_agent_task_max_retries)
\* steps.
C17_RolloutStopsAtDone ==
    [][/\ (driver'.mode = "learn" /\ driver'.pc = "rollout_reset" /\ driver.pc # "rollout_reset")
          => driver.pc = "head"
       /\ (driver.mode = "learn" /\ driver.pc = "rollout_reset")
          => /\ ret'.op = "reset"
             /\ driver'.pc \in {"rollout_step", "except"}
             /\ driver'.pc = "rollout_step" => (Returned(ret') /\ StepsTaken(voyager') = 0)
       /\ (driver.mode = "learn" /\ driver.pc = "rollout_step")
          => /\ ret'.op = "step"
             /\ ret.op = "step" => (Returned(ret) /\ ~ret.done /\ ~ret.success)
             /\ StepsTaken(voyager) < Max(1, voyager.action_agent_task_max_retries)
             /\ driver'.pc \in {"rollout_step", "after", "except"}
             /\ driver'.pc = "rollout_step" <=> (Returned(ret') /\ ~ret'.done)
             /\ driver'.pc = "after"
                  <=> (Returned(ret') /\ ret'.done)
             /\ driver'.pc = "after"
                  => /\ driver'.info = ret'.info
                     /\ StepsTaken(voyager') >= 1
                     /\ StepsTaken(voyager') <= Max(1, voyager.action_agent_task_max_retries)
             /\ Returned(ret') => StepsTaken(voyager') = StepsTaken(voyager) + 1]_vars

\* a rollout with two retries allowed ended at its second step, which
\* failed; the first had failed too
C17_Witness ==
    /\ driver.mode = "learn" /\ driver.pc = "after"
    /\ ret.op = "step" /\ Returned(ret) /\ ret.done /\ ~ret.success
    /\ voyager.action_agent_task_max_retries = 2
    /\ StepsTaken(voyager) = 2
    /\ driver.info = ret.info

OpensHard(made) == MadeIn(made, "env.reset:hard")
OpensSoft(made) == MadeIn(made, "env.reset:soft")

\* C18: a learn() call starts with a hard reset exactly when the resume
\* flag is false, and across the learn() calls on one Voyager only the
\* first can start with a hard reset: every other call starts with a soft
\* reset.
C18_OnlyFirstLearnStartsHard ==
    [][ret'.op = "learn:begin"
          => /\ OpensHard(ops') <=> ~voyager.resume
             /\ OpensSoft(ops') <=> voyager.resume
             /\ OpensHard(ops') => calls = 0
             /\ calls > 0 => OpensSoft(ops')]_vars

\* C18 as amended: a learn() call starts with a hard reset exactly when the
\* resume flag is false and with a soft reset otherwise; the flag is true
\* once the opening reset has returned and is never set back to false.
C18_HardUntilOneReturns ==
    [][/\ voyager.resume => voyager'.resume
       /\ ret'.op = "learn:begin"
          => /\ OpensHard(ops') <=> ~voyager.resume
             /\ OpensSoft(ops') <=> voyager.resume
             /\ MadeIn(ops', "env.step") => voyager'.resume
             /\ ~MadeIn(ops', "env.step") => (voyager'.resume <=> voyager.resume)]_vars

\* the second learn() call on a Voyager constructed without resume starts
\* with a soft reset
C18_Witness ==
    /\ ret.op = "learn:begin"
    /\ calls = 2
    /\ ckpt = EmptyCkpt
    /\ ops = <<"env.reset:soft", "env.step">>
    /\ voyager.resume

\* C19: inference() makes exactly one rollout per sub-goal, in list order:
\* its k-th rollout runs the k-th sub-goal, whether or not the rollouts
\* before it succeeded, and it returns when as many rollouts were made as
\* there are sub-goals.
C19_OneRolloutPerSubGoal ==
    [][(driver.mode = "inference" /\ driver.pc = "head")
          => /\ ret'.outcome = "running"
                => /\ driver'.rollouts <= Len(driver.sub_goals)
                   /\ driver'.task = driver.sub_goals[driver'.rollouts]
             /\ ret'.outcome = "returned"
                => driver.rollouts = Len(driver.sub_goals)]_vars

CalledWithNeither(r) ==
    r.op = "inference:begin" /\ r.task = NoTask /\ r.sub_goals = <<>>

\* C20: inference() called with neither a task nor sub-goals raises
\* ValueError without calling the environment or the planner and without
\* changing the planner's completed and failed lists.
C20_MissingGoalRaisesFirst ==
    [][CalledWithNeither(ret')
          => /\ ret'.outcome = "raised" /\ ret'.error = "ValueError"
             /\ ops' = <<>>
             /\ voyager' = voyager
             /\ driver' = Idle]_vars

\* inference() without arguments was called on a Voyager whose planner
\* holds a completed task, and the task is still there
C20_Witness ==
    /\ CalledWithNeither(ret)
    /\ ret.error = "ValueError"
    /\ voyager.completed_tasks = <<MineTask>>
    /\ ops = <<>>

\* the position of call o in the log, 0 when it was not made
PositionIn(made, o) ==
    IF MadeIn(made, o) THEN CHOOSE i \in 1..Len(made) : made[i] = o ELSE 0

\* C21: a Voyager is constructed only if the self-tests of the code
\* generation agent, the curriculum agent, the critic and the skill manager
\* all returned true; each self-test is the call right after its
\* sub-agent's constructor; at the first failing self-test the constructor
\* raises RuntimeError and no later sub-agent and no event recorder is
\* constructed.
C21_SelfTestsGateConstruction ==
    ret.op = "construct"
       => /\ Returned(ret)
             => /\ voyager # NoVoyager
                /\ \A a \in Range(SubAgents) : ret.llm[a] /\ MadeIn(ops, TestOf(a))
          /\ ~Returned(ret) => voyager = NoVoyager /\ ~MadeIn(ops, "EventRecorder")
          /\ \A a \in Range(SubAgents) :
                /\ MadeIn(ops, TestOf(a))
                   => PositionIn(ops, TestOf(a)) = PositionIn(ops, CtorOf(a)) + 1
                /\ (MadeIn(ops, CtorOf(a)) /\ ops[Len(ops)] # CtorOf(a))
                   => MadeIn(ops, TestOf(a))
                /\ (MadeIn(ops, TestOf(a)) /\ ~ret.llm[a])
                   => /\ ret.outcome = "raised" /\ ret.error = "RuntimeError"
                      /\ ops[Len(ops)] = TestOf(a)

\* the critic's self-test failed after the two before it passed: nothing
\* after the critic was constructed
C21_Witness ==
    /\ ret.op = "construct"
    /\ ret.llm["action_agent"] /\ ret.llm["curriculum_agent"] /\ ~ret.llm["critic_agent"]
    /\ ret.error = "RuntimeError"
    /\ ops[Len(ops)] = TestOf("critic_agent")
    /\ ~MadeIn(ops, "SkillManager")
    /\ voyager = NoVoyager

\* how often call o was made
TimesIn(made, o) == Cardinality({i \in 1..Len(made) : made[i] = o})

\* C22: a step() that returns has recorded exactly one event batch under
\* the current task -- the gateway's events when the reply parsed, the empty
\* batch when it did not -- so the recorder's iteration counter is one
\* higher after it; and no operation of reset, rollout, learn or inference
\* lowers the counter.
C22_OneRecordPerStep ==
    [][/\ voyager'.recorder.iteration >= voyager.recorder.iteration
       /\ (ret'.op = "step" /\ Returned(ret'))
          => /\ voyager'.recorder.iteration = voyager.recorder.iteration + 1
             /\ TimesIn(ops', "recorder.record") = 1
             /\ voyager'.recorder.task = voyager.task
             /\ IF ret'.parsed = "code"
                THEN /\ MadeIn(ops', "env.step")
                     /\ voyager'.recorder.events = voyager'.last_events
                     /\ voyager'.recorder.events # <<>>
                ELSE /\ ~MadeIn(ops', "env.step")
                     /\ voyager'.recorder.events = <<>>]_vars

\* inside inference(), after learn() has recorded a batch, a step came back
\* from a reply that did not parse: the recorder holds the empty batch
C22_Witness ==
    /\ driver.mode = "inference"
    /\ ret.op = "step" /\ Returned(ret)
    /\ ret.parsed # "code"
    /\ voyager.recorder.events = <<>>
    /\ voyager.recorder.iteration = 2

\* C23: the recovery reset after a rollout that raised inside learn() is
\* seeded with the inventory, equipment and position of the last events
\* seen before that rollout started, never with those of a step the failed
\* rollout executed.
C23_SeedPredatesFailedRollout ==
    [][ret'.op = "learn:except" => ret'.seed = Seed(driver.started_from)]_vars

Verdicts == {"critic:success", "critic:failure"}

\* the position of the critic's verdict in the log, 0 when it gave none
VerdictIn(made) ==
    IF \E v \in Verdicts : MadeIn(made, v)
    THEN CHOOSE i \in 1..Len(made) : made[i] \in Verdicts
    ELSE 0

\* C24: a step() whose reply parsed runs the gateway step, records the
\* events, updates the chest memory from the last event and asks the critic,
\* in this order; the critic is asked about recorded events only; skills are
\* retrieved again and the messages rendered again only after the verdict.
C24_ParseSuccessOrder ==
    [][(ret'.op = "step" /\ MadeIn(ops', "env.step"))
          => /\ MadeIn(ops', "recorder.record")
                => PositionIn(ops', "recorder.record") = PositionIn(ops', "env.step") + 1
             /\ MadeIn(ops', "update_chest_memory")
                => /\ PositionIn(ops', "update_chest_memory")
                         = PositionIn(ops', "recorder.record") + 1
                   /\ Last(voyager'.recorder.events).nearbyChests \in voyager'.chest_memory
             /\ MadeIn(ops', "critic")
                => /\ PositionIn(ops', "critic")
                         = PositionIn(ops', "update_chest_memory") + 1
                   /\ voyager'.recorder.iteration = voyager.recorder.iteration + 1
             /\ MadeIn(ops', "retrieve_skills")
                => /\ VerdictIn(ops') > PositionIn(ops', "critic")
                   /\ VerdictIn(ops') < PositionIn(ops', "retrieve_skills")
             /\ voyager'.messages # voyager.messages => VerdictIn(ops') > 0
             /\ Returned(ret')
                => MadeIn(ops', "critic") /\ MadeIn(ops', "retrieve_skills")]_vars

\* a step whose program ran and was judged a failure has returned
C24_Witness ==
    /\ ret.op = "step" /\ Returned(ret)
    /\ ret.parsed = "code"
    /\ MadeIn(ops, "critic:failure")
    /\ ops[Len(ops)] = "retrieve_skills"

\* the critique the critic returned, read off its calls: only an LLM answer
\* with a failure verdict carries one
CritiqueGiven(made) ==
    IF MadeIn(made, "critic:failure") /\ TimesIn(made, "llm:critic") = 1
    THEN "critique" ELSE ""

\* two event batches that differ at most in the inventory and the voxels of
\* their last event
SameButPlaced(before, after) ==
    /\ Len(after) = Len(before)
    /\ \A i \in 1..(Len(before) - 1) : after[i] = before[i]
    /\ Last(after).type = Last(before).type
    /\ Last(after).status = Last(before).status
    /\ Last(after).nearbyChests = Last(before).nearbyChests

\* C25: in a step() whose reply parsed, the reversal snippet is run (a second
\* gateway step) exactly when reset_placed_if_failed is on and the critic's
\* verdict is failure; it changes only inventory and voxels of the step's
\* last event, and leaves the other event fields, the verdict, the critique
\* and the recorder's iteration counter as they were.
C25_ReversalPatchesPlacedOnly ==
    [][(ret'.op = "step" /\ VerdictIn(ops') > 0)
          => /\ MadeIn(ops', "env.step:revert")
                <=> (voyager.reset_placed_if_failed /\ MadeIn(ops', "critic:failure"))
             /\ TimesIn(ops', "env.step:revert") <= 1
             /\ voyager'.recorder.iteration = voyager.recorder.iteration + 1
             /\ Returned(ret')
                => /\ ret'.success <=> MadeIn(ops', "critic:success")
                   /\ voyager'.messages[2].critique = CritiqueGiven(ops')
                   /\ SameButPlaced(voyager'.recorder.events, voyager'.last_events)
                   /\ ~MadeIn(ops', "env.step:revert")
                      => voyager'.last_events = voyager'.recorder.events]_vars

\* the reversal ran after a failure verdict with a critique and changed the
\* inventory of the last event
C25_Witness ==
    /\ ret.op = "step" /\ Returned(ret)
    /\ MadeIn(ops, "env.step:revert")
    /\ voyager.messages[2].critique = "critique"
    /\ Last(voyager.last_events).inventory # Last(voyager.recorder.events).inventory
    /\ Last(voyager.last_events).status = Last(voyager.recorder.events).status

\* C26: after a reset() that returns, whatever state it was called in, the
\* retry counter is 0, the conversation history is empty, the messages are
\* one system message and one human message for the given task and context,
\* and the gateway was reset (softly) exactly when reset_env was true.
C26_ResetStartsARollout ==
    (ret.op = "reset" /\ Returned(ret))
       => /\ voyager.action_agent_rollout_num_iter = 0
          /\ voyager.conversations = <<>>
          /\ voyager.task = ret.task /\ voyager.context = ret.context
          /\ Len(voyager.messages) = 2
          /\ voyager.messages[1].role = "system"
          /\ voyager.messages[2] = [role |-> "human", skills |-> 0, task |-> ret.task,
                                    context |-> ret.context, code |-> "", critique |-> ""]
          /\ MadeIn(ops, "env.reset:soft") <=> ret.reset_env
          /\ TimesIn(ops, "env.reset:soft") <= 1
          /\ ~MadeIn(ops, "env.reset:hard") /\ ~MadeIn(ops, "env.reset:seeded")

\* reset() without a gateway reset has returned on a Voyager whose rollout
\* had made one of its two steps
C26_Witness ==
    /\ ret.op = "reset" /\ Returned(ret)
    /\ ~ret.reset_env
    /\ voyager.action_agent_task_max_retries = 2
    /\ voyager.recorder.iteration = 1
    /\ voyager.conversations = <<>>
    /\ voyager.action_agent_rollout_num_iter = 0

\* how strict a difficulty level is: peaceful is the most relaxed
Strictness(difficulty) == IF difficulty = "peaceful" THEN 0 ELSE 1

\* C27: the difficulty reset() sets relaxes with the number of completed
\* tasks: it is never stricter than the difficulty set for any smaller
\* number of completed tasks.
C27_DifficultyRelaxes ==
    (ret.op = "reset" /\ ret.difficulty # "none")
       => \A fewer \in 0..Len(voyager.completed_tasks) :
             Strictness(ret.difficulty) <= Strictness(Difficulty(fewer))

C29_SkillThenProgress ==
    [][(driver.mode = "learn" /\ driver.pc = "after" /\ ret'.outcome # "raised")
          => /\ MadeIn(ops', "add_new_skill") <=> driver.info.success
             /\ TimesIn(ops', "add_new_skill") <= 1
             /\ ExceptionReport(driver.info) => ~MadeIn(ops', "add_new_skill")
             /\ ~MadeIn(ops', "add_new_skill")
                => skill_manager' = skill_manager /\ ckpt' = ckpt
             /\ TimesIn(ops', "update_exploration_progress") = 1
             /\ ops'[Len(ops')] = "update_exploration_progress"
             /\ driver.info.task = driver.task
             /\ voyager' = update_exploration_progress(voyager, driver.info)
             /\ driver'.mode = "learn" /\ driver'.pc = "head"]_vars

\* an iteration has completed after a successful rollout: the skill was
\* stored and then the planner was told
C29_Witness ==
    /\ ret.op = "learn:after" /\ ret.outcome = "running"
    /\ ops = <<"add_new_skill", "llm:skill", "update_exploration_progress">>
    /\ Name("foo", <<>>) \in DOMAIN skill_manager.skills
    /\ MineTask \in Elems(voyager.completed_tasks)

\* C30: add_new_skill for a task whose text starts with the deposit prefix
\* returns without an LLM call and leaves the manifest, the index and every
\* checkpoint file as they were, also when info reports success.
C30_DepositIsNotMemoized ==
    [][(sm_ops' = sm_ops + 1 /\ sm_ret'.op = "add"
        /\ sm_ret'.info.task[1] = DepositPrefix)
          => /\ sm_ret'.outcome = "returned"
             /\ sm_ret'.llm_calls = 0
             /\ skill_manager' = skill_manager
             /\ ckpt' = ckpt]_vars

\* the deposit task was reported as a success to a manager that holds a
\* saved skill
C30_Witness ==
    /\ sm_ret.op = "add" /\ Returned(sm_ret)
    /\ sm_ret.info.task = DepositTask
    /\ sm_ret.info.success
    /\ skill_manager.state = "ready"
    /\ ckpt = SavedCkpt


---------------------------------------------------------------------------
\* C31: when every external call answers or raises in finite time, every
\* learn() call ends: each pass of its loop, one whose rollout raised
\* included, moves the recorder's iteration counter up, so the exit test is
\* met after finitely many passes.
C31_LearnEnds == (driver.mode = "learn") ~> (driver.mode = "idle")


\* learn() returns: the exit test at the head of the loop is met
LearnReturns ==
    /\ driver.mode = "learn" /\ driver.pc = "head"
    /\ driver'.mode = "idle"
    /\ ret'.op = "learn:head" /\ ret'.outcome = "returned"

\* the most steps one rollout takes
RolloutSteps(self) == Max(1, self.action_agent_task_max_retries)

\* C32: when learn() returns, the recorder's iteration counter is at most the
\* larger of its value when learn() was called and max_iterations plus one
\* full rollout of steps, max(1, action_agent_task_max_retries).
C32_OvershootIsOneRollout ==
    [][LearnReturns =>
          voyager'.recorder.iteration
              <= Max(driver.called_at,
                     voyager.max_iterations + RolloutSteps(voyager))]_vars

\* learn() has returned after overshooting the ceiling by a full rollout of
\* two steps.
C32_Witness ==
    /\ ret.op = "learn:head" /\ Returned(ret)
    /\ voyager.action_agent_task_max_retries = 2
    /\ voyager.max_iterations = 1
    /\ voyager.recorder.iteration = 3


\* C33: at every return of step(), the conversation history holds as many
\* turns as the retry counter counts: one per step since the last reset().
C33_OneTurnPerCountedStep ==
    (ret.op = "step" /\ Returned(ret))
        => Len(voyager.conversations) = voyager.action_agent_rollout_num_iter


\* C34: after an add_new_skill call that was interrupted by a failure, the
\* manifest and the index saved in the checkpoint hold the same number of
\* entries, so a SkillManager resumed from the checkpoint passes its check.
C34_InterruptedAddKeepsCheckpointSynced ==
    (sm_ret.op = "add" /\ sm_ret.outcome = "raised")
        => Cardinality(ckpt.vectordb) = Cardinality(DOMAIN ckpt.skills_json.data)


\* C35: no add_new_skill call, whatever program it is given, changes a code
\* file or a description file that an earlier call wrote; a new program named
\* like an alias generated earlier is no exception.
C35_NoAddOverwritesAFile ==
    [][(sm_ops' = sm_ops + 1 /\ sm_ret'.op = "add")
          => /\ Preserved(ckpt.code, ckpt'.code)
             /\ Preserved(ckpt.description, ckpt'.description)]_vars

=============================================================================
